---- MODULE Spec2Model ----
(***************************************************************************)
(* Model of the Sequence and Bracketed grammar combinators of              *)
(* src/core/parser/grammar/sequence.rs.                                    *)
(*                                                                         *)
(* A match is a pure recursion over the grammar; the matcher under test    *)
(* (the outermost Sequence or Bracketed) is run as a state machine, one    *)
(* action per loop iteration of Sequence::match_segments, so that what     *)
(* each iteration saw and did can be observed.  Nested matchers are        *)
(* evaluated by the recursive operator Match, which folds the very same    *)
(* loop body.                                                              *)
(***************************************************************************)
EXTENDS Integers, Sequences, FiniteSets, TLC

\* Longest token stream handed to the matcher under test.
MaxLen == 4

(***************************************************************************)
(* Token model.  A segment carries its raw text, its kind, its position    *)
(* marker and the is_code / is_meta flags; a meta also carries indent_val. *)
(***************************************************************************)
Raws == {"bar", "foo", "ws", "(", ")"}

IsCodeRaw(raw) == raw # "ws"

TypeOfRaw(raw) ==
  IF raw = "ws" THEN "whitespace"
  ELSE IF raw \in {"(", ")"} THEN "symbol"
  ELSE "raw"

Token(raw, pos) ==
  [raw |-> raw, type |-> TypeOfRaw(raw), pos |-> pos,
   is_code |-> IsCodeRaw(raw), is_meta |-> FALSE, indent_val |-> 0]

\* Indent::boxed(): the zero-width segment a buffered meta becomes.
MetaSegment(indent_val) ==
  [raw |-> "", type |-> IF indent_val >= 0 THEN "indent" ELSE "dedent", pos |-> 0,
   is_code |-> FALSE, is_meta |-> TRUE, indent_val |-> indent_val]

\* The lexer's output for a sequence of raws: token i sits at position i.
Lex(raws) == [i \in 1..Len(raws) |-> Token(raws[i], i)]

RECURSIVE SeqsUpTo(_)
SeqsUpTo(n) ==
  IF n = 0 THEN {<<>>}
  ELSE LET shorter == SeqsUpTo(n - 1)
       IN  shorter \cup {Append(s, r) : s \in {t \in shorter : Len(t) = n - 1}, r \in Raws}

Inputs == {Lex(raws) : raws \in SeqsUpTo(MaxLen)}

\* get_raw_upper(): the case folding used to compare raws.
Upper(raw) ==
  CASE raw = "bar" -> "BAR"
    [] raw = "foo" -> "FOO"
    [] raw = "ws"  -> "WS"
    [] OTHER       -> raw

(***************************************************************************)
(* Sequence helpers.                                                       *)
(***************************************************************************)
Take(s, n) == SubSeq(s, 1, n)
Drop(s, n) == SubSeq(s, n + 1, Len(s))

IsCode(seg) == seg.is_code
IsMeta(seg) == seg.is_meta
NotMeta(seg) == ~seg.is_meta

(***************************************************************************)
(* MatchResult.                                                            *)
(***************************************************************************)
Ok(matched, unmatched) ==
  [status |-> "ok", error |-> "", matched_segments |-> matched,
   unmatched_segments |-> unmatched]

from_unmatched(segments) == Ok(<<>>, segments)

\* An Err(SQLParseError) travelling up through `?`.
Err(kind) ==
  [status |-> "err", error |-> kind, matched_segments |-> <<>>,
   unmatched_segments |-> <<>>]

\* A panic!/unimplemented! unwinding the whole parse.
Panic(message) ==
  [status |-> "panic", error |-> message, matched_segments |-> <<>>,
   unmatched_segments |-> <<>>]

\* A result has a match iff its matched span holds at least one code token.
has_match(result) ==
  \E i \in 1..Len(result.matched_segments) : result.matched_segments[i].is_code

(***************************************************************************)
(* Grammar nodes.  Every node is a record with a kind and an optional      *)
(* flag; the other fields are those of the Rust struct.                    *)
(***************************************************************************)
Strict == "Strict"
Greedy == "Greedy"
GreedyOnceStarted == "GreedyOnceStarted"
ParseModes == {Strict, Greedy, GreedyOnceStarted}

\* StringParser::new(template, factory producing a segment of kind seg_type).
StringParser(template, seg_type, optional) ==
  [kind |-> "string", template |-> template, seg_type |-> seg_type,
   optional |-> optional]

\* Indent / Dedent used as a grammar element.
IndentElem(indent_val) ==
  [kind |-> "meta", indent_val |-> indent_val, optional |-> FALSE]

\* Sequence::new(elements) followed by the builder calls.
SequenceOf(elements, parse_mode, allow_gaps, optional, terminators) ==
  [kind |-> "sequence", elements |-> elements, parse_mode |-> parse_mode,
   allow_gaps |-> allow_gaps, optional |-> optional, terminators |-> terminators]

SequenceNew(elements) == SequenceOf(elements, Strict, TRUE, FALSE, <<>>)

\* Bracketed::new(args): round brackets, gaps allowed, a Strict inner Sequence.
BracketedOf(elements, allow_gaps) ==
  [kind |-> "bracketed", bracket_type |-> "round",
   bracket_pairs_set |-> "bracket_pairs", allow_gaps |-> allow_gaps,
   optional |-> FALSE, this |-> SequenceNew(elements)]

is_optional(elem) == elem.optional

(***************************************************************************)
(* Collaborators that live outside sequence.rs.                            *)
(***************************************************************************)
\* StringParser::match_segments: the token at the head of the input is taken
\* when it is code and its folded raw equals the folded template; it is
\* rewrapped by the factory (same raw, same position, new kind).
StringParserMatch(self, segments) ==
  IF /\ Len(segments) > 0
     /\ segments[1].is_code
     /\ Upper(segments[1].raw) = Upper(self.template)
  THEN Ok(<<[segments[1] EXCEPT !.type = self.seg_type]>>, Tail(segments))
  ELSE from_unmatched(segments)

\* helpers::trim_non_code_segments: (leading non-code, middle, trailing non-code).
RECURSIVE LeadingNonCode(_)
LeadingNonCode(segments) ==
  IF Len(segments) = 0 \/ segments[1].is_code THEN 0
  ELSE 1 + LeadingNonCode(Tail(segments))

RECURSIVE TrailingNonCode(_)
TrailingNonCode(segments) ==
  IF Len(segments) = 0 \/ segments[Len(segments)].is_code THEN 0
  ELSE 1 + TrailingNonCode(Take(segments, Len(segments) - 1))

trim_non_code_segments(segments) ==
  LET pre == LeadingNonCode(segments)
      post == IF pre = Len(segments) THEN 0 ELSE TrailingNonCode(segments)
  IN  [pre |-> Take(segments, pre),
       mid |-> SubSeq(segments, pre + 1, Len(segments) - post),
       post |-> Drop(segments, Len(segments) - post)]

\* Dialect::bracket_sets("bracket_pairs"), the "round" entry.
StartBracket == StringParser("(", "start_bracket", FALSE)
EndBracket == StringParser(")", "end_bracket", FALSE)

RECURSIVE Match(_, _, _)

\* ParseContext terminators seen by a child run through deeper_match.
DeeperTerminators(terminators, clear_terminators) ==
  IF clear_terminators THEN <<>> ELSE terminators

\* Whether some terminator matches at the head of segments.  The terminators
\* of the grammars modelled here are literal (keyword) matchers.
AnyMatches(matchers, segments, ctx_terminators) ==
  \E i \in 1..Len(matchers) : has_match(StringParserMatch(matchers[i], segments))

\* match_algorithms::greedy_match(segments, ctx, terminators, false): scan,
\* respecting bracket nesting, to the first top-level terminator; the result
\* is (everything before it, terminator and rest).  With no terminator the
\* scan runs to the end and everything is before.
RECURSIVE GreedyScan(_, _, _, _, _)
GreedyScan(segments, terminators, ctx_terminators, i, depth) ==
  IF i > Len(segments) THEN Len(segments) + 1
  ELSE IF depth = 0 /\ AnyMatches(terminators, Drop(segments, i - 1), ctx_terminators)
  THEN i
  ELSE IF segments[i].raw = "("
  THEN GreedyScan(segments, terminators, ctx_terminators, i + 1, depth + 1)
  ELSE IF segments[i].raw = ")" /\ depth > 0
  THEN GreedyScan(segments, terminators, ctx_terminators, i + 1, depth - 1)
  ELSE GreedyScan(segments, terminators, ctx_terminators, i + 1, depth)

greedy_match(segments, ctx_terminators, terminators) ==
  LET at == GreedyScan(segments, terminators, ctx_terminators, 1, 0)
  IN  Ok(Take(segments, at - 1), Drop(segments, at - 1))

\* match_algorithms::bracket_sensitive_look_ahead_match with the close bracket
\* as the only target: a depth counter seeded to zero, the target matched at
\* depth zero only.  Returns (before, match of the target).
RECURSIVE BracketScan(_, _, _)
BracketScan(segments, i, depth) ==
  IF i > Len(segments) THEN 0
  ELSE IF depth = 0 /\ has_match(StringParserMatch(EndBracket, Drop(segments, i - 1)))
  THEN i
  ELSE IF has_match(StringParserMatch(StartBracket, Drop(segments, i - 1)))
  THEN BracketScan(segments, i + 1, depth + 1)
  ELSE IF has_match(StringParserMatch(EndBracket, Drop(segments, i - 1)))
  THEN BracketScan(segments, i + 1, depth - 1)
  ELSE BracketScan(segments, i + 1, depth)

bracket_sensitive_look_ahead_match(segments) ==
  LET at == BracketScan(segments, 1, 0)
  IN  IF at = 0
      THEN [pre |-> <<>>, match |-> from_unmatched(segments)]
      ELSE [pre |-> Take(segments, at - 1),
            match |-> StringParserMatch(EndBracket, Drop(segments, at - 1))]

(***************************************************************************)
(* sequence.rs: the free functions.                                        *)
(***************************************************************************)
\* A faulty variant: the segments after idx are forgotten instead of being put in front
\* of the tail.
split_and_concatenate_lossy(segments, idx, tail) ==
  [first |-> Take(segments, idx), second |-> tail]

split_and_concatenate(segments, idx, tail) ==
  [first |-> Take(segments, idx), second |-> Drop(segments, idx) \o tail]

\* Index (1-based) of the last code segment, 0 when there is none.
RECURSIVE LastCodeIndex(_)
LastCodeIndex(segments) ==
  IF Len(segments) = 0 THEN 0
  ELSE IF segments[Len(segments)].is_code THEN Len(segments)
  ELSE LastCodeIndex(Take(segments, Len(segments) - 1))

\* trim_to_terminator: (segments kept for matching, tail withheld).
trim_to_terminator(segments, tail, terminators, ctx_terminators) ==
  LET term_match ==
        greedy_match(segments, DeeperTerminators(ctx_terminators, FALSE), terminators)
      idx == LastCodeIndex(term_match.matched_segments)
  IN  IF has_match(term_match) /\ idx > 0
      THEN split_and_concatenate(term_match.matched_segments, idx,
                                 term_match.unmatched_segments)
      ELSE [first |-> segments, second |-> tail]

MetasBoxed(metas) == [i \in 1..Len(metas) |-> MetaSegment(metas[i])]

\* A faulty variant: the metas always go first, whatever their indent_val.
position_metas_metas_first(metas, non_code) == MetasBoxed(metas) \o non_code

position_metas(metas, non_code) ==
  IF \A i \in 1..Len(metas) : metas[i] >= 0
  THEN MetasBoxed(metas) \o non_code
  ELSE non_code \o MetasBoxed(metas)

(***************************************************************************)
(* Sequence::match_segments.  The locals of the function form a record;    *)
(* ctl says whether the loop goes on ("next") or the function has returned  *)
(* from inside the loop ("return", with ret the value returned).            *)
(***************************************************************************)
SequenceLocals(segments) ==
  [matched_segments |-> <<>>, unmatched_segments |-> segments, tail |-> <<>>,
   first_match |-> TRUE, meta_buffer |-> <<>>, non_code_buffer |-> <<>>,
   ctl |-> "next", ret |-> from_unmatched(<<>>)]

\* A faulty variant: at most one non-code segment is moved into the buffer.
ConsumeGapOne(self, st) ==
  IF self.allow_gaps /\ st.matched_segments # <<>>
     /\ Len(st.unmatched_segments) > 1
     /\ ~st.unmatched_segments[1].is_code
  THEN [st EXCEPT !.non_code_buffer = @ \o Take(st.unmatched_segments, 1),
                  !.unmatched_segments = Drop(@, 1)]
  ELSE st

\* Step 2: with allow_gaps and something already in matched_segments, move the
\* non-code run in front of the next code segment into non_code_buffer.
ConsumeGap(self, st) ==
  LET n == LeadingNonCode(st.unmatched_segments)
  IN  IF self.allow_gaps /\ st.matched_segments # <<>>
         /\ n < Len(st.unmatched_segments)
      THEN [st EXCEPT !.non_code_buffer = @ \o Take(st.unmatched_segments, n),
                      !.unmatched_segments = Drop(@, n)]
      ELSE st

\* The terminators of the frame deeper_match("Sequence-@idx", false, &[], ..)
\* pushes for an element: the inherited ones, and no extra ones.
ElemContext(ctx_terminators) ==
  DeeperTerminators(ctx_terminators, FALSE) \o <<>>

\* Step 4: the element run in its deeper_match frame.
ElemMatch(elem, st, ctx_terminators) ==
  Match(elem, st.unmatched_segments, ElemContext(ctx_terminators))

\* A faulty variant: Strict mode does not give up on a failed required element.
DispositionLenient(self, elem, elem_match) ==
  IF elem_match.status # "ok" THEN "raise"
  ELSE IF has_match(elem_match) THEN "flush"
  ELSE IF is_optional(elem) THEN "continue"
  ELSE "flush"

\* What the loop does with the element's result: an Err or panic leaves the
\* function ("raise"); without a match an optional element is passed over
\* ("continue") and Strict mode gives up ("return"); everything else goes on
\* to step 5 ("flush").
Disposition(self, elem, elem_match) ==
  IF elem_match.status # "ok" THEN "raise"
  ELSE IF has_match(elem_match) THEN "flush"
  ELSE IF is_optional(elem) THEN "continue"
  ELSE IF self.parse_mode = Strict THEN "return"
  ELSE "flush"

\* Step 5: flush the buffers, append the element's match.
Flush(st, elem_match) ==
  [st EXCEPT !.matched_segments =
                 @ \o position_metas(st.meta_buffer, st.non_code_buffer)
                   \o elem_match.matched_segments,
             !.non_code_buffer = <<>>,
             !.meta_buffer = <<>>,
             !.unmatched_segments = elem_match.unmatched_segments]

\* The GreedyOnceStarted look-ahead after the first pass through step 5.
FirstMatchTrim(self, st, ctx_terminators) ==
  IF st.first_match /\ self.parse_mode = GreedyOnceStarted
  THEN LET trimmed == trim_to_terminator(st.unmatched_segments, st.tail,
                                         ctx_terminators \o self.terminators,
                                         ctx_terminators)
       IN  [st EXCEPT !.unmatched_segments = trimmed.first,
                      !.tail = trimmed.second,
                      !.first_match = FALSE]
  ELSE st

\* One iteration of `for (idx, elem) in enumerate(&self.elements)`.
LoopBody(self, segments, ctx_terminators, st, idx) ==
  LET elem == self.elements[idx]
      gapped == ConsumeGap(self, st)
      elem_match == ElemMatch(elem, gapped, ctx_terminators)
      todo == Disposition(self, elem, elem_match)
  IN  IF elem.kind = "meta"
      THEN [st EXCEPT !.meta_buffer = Append(@, elem.indent_val)]
      ELSE CASE todo = "raise"    -> [gapped EXCEPT !.ctl = "return", !.ret = elem_match]
             [] todo = "continue" -> gapped
             [] todo = "return"   ->
                  [gapped EXCEPT !.ctl = "return", !.ret = from_unmatched(segments)]
             [] todo = "flush"    ->
                  FirstMatchTrim(self, Flush(gapped, elem_match), ctx_terminators)

\* After the loop: leftover metas, leftover non-code, the tail.
SequenceReturn(st) ==
  Ok(st.matched_segments \o MetasBoxed(st.meta_buffer),
     st.non_code_buffer \o st.unmatched_segments \o st.tail)

RECURSIVE SequenceLoop(_, _, _, _, _)
SequenceLoop(self, segments, ctx_terminators, st, idx) ==
  IF st.ctl = "return" THEN st.ret
  ELSE IF idx > Len(self.elements) THEN SequenceReturn(st)
  ELSE SequenceLoop(self, segments, ctx_terminators,
                    LoopBody(self, segments, ctx_terminators, st, idx), idx + 1)

SequenceMatch(self, segments, ctx_terminators) ==
  SequenceLoop(self, segments, ctx_terminators, SequenceLocals(segments), 1)

(***************************************************************************)
(* Bracketed::match_segments.                                              *)
(***************************************************************************)
BracketedMatch(self, segments, ctx_terminators) ==
  LET seg_buff == IF self.allow_gaps THEN trim_non_code_segments(segments).mid
                  ELSE segments
      start_match ==
        StringParserMatch(StartBracket, segments)
      look == bracket_sensitive_look_ahead_match(start_match.unmatched_segments)
      content_segs == IF self.allow_gaps THEN trim_non_code_segments(look.pre).mid
                      ELSE <<>>
      content_match == Match(self.this, content_segs, DeeperTerminators(ctx_terminators, TRUE))
  IN  IF Len(seg_buff) > 0 /\ seg_buff[Len(seg_buff)].type = "bracketed"
      THEN Panic("not implemented")
      ELSE IF ~has_match(start_match)
      THEN from_unmatched(segments)
      ELSE IF ~has_match(look.match)
      THEN Panic("Couldn't find closing bracket for opening bracket.")
      ELSE IF content_match.status # "ok"
      THEN content_match
      ELSE IF ~has_match(content_match)
      THEN Panic("explicit panic")
      ELSE Panic("not implemented")

\* OneOf: every alternative is tried on the same input; the success with the
\* most code tokens is kept, the earlier alternative on a tie.
RECURSIVE OneOfLongest(_, _, _, _, _)
OneOfLongest(self, segments, ctx_terminators, i, best) ==
  IF i > Len(self.elements) THEN best
  ELSE LET got == Match(self.elements[i], segments, ctx_terminators)
       IN  IF got.status # "ok" THEN got
           ELSE IF /\ has_match(got)
                   /\ Len(SelectSeq(got.matched_segments, IsCode))
                        > Len(SelectSeq(best.matched_segments, IsCode))
           THEN OneOfLongest(self, segments, ctx_terminators, i + 1, got)
           ELSE OneOfLongest(self, segments, ctx_terminators, i + 1, best)

OneOfMatch(self, segments, ctx_terminators) ==
  OneOfLongest(self, segments, ctx_terminators, 1, from_unmatched(segments))

\* Matchable::match_segments, dispatched on the node.
Match(self, segments, ctx_terminators) ==
  CASE self.kind = "string"    -> StringParserMatch(self, segments)
    [] self.kind = "sequence"  -> SequenceMatch(self, segments, ctx_terminators)
    [] self.kind = "bracketed" -> BracketedMatch(self, segments, ctx_terminators)
    [] self.kind = "oneof"     -> OneOfMatch(self, segments, ctx_terminators)

(***************************************************************************)
(* simple(): the prefilter.  none is the Rust None; otherwise the pair of  *)
(* raw and kind sets.                                                      *)
(***************************************************************************)
SimpleNone == [some |-> FALSE, raws |-> {}, types |-> {}]
SimpleSome(raws, types) == [some |-> TRUE, raws |-> raws, types |-> types]

RECURSIVE Simple(_)

\* StringParser::simple: the folded template.
StringParserSimple(self) == SimpleSome({Upper(self.template)}, {})

\* Indent::simple: a meta predicts nothing.
IndentSimple(self) == SimpleNone

RECURSIVE SequenceSimpleLoop(_, _, _, _)
SequenceSimpleLoop(self, idx, simple_raws, simple_types) ==
  IF idx > Len(self.elements) THEN SimpleSome(simple_raws, simple_types)
  ELSE LET opt == self.elements[idx]
           got == Simple(opt)
       IN  IF ~got.some THEN SimpleNone
           ELSE IF ~is_optional(opt)
           THEN SimpleSome(simple_raws \cup got.raws, simple_types \cup got.types)
           ELSE SequenceSimpleLoop(self, idx + 1, simple_raws \cup got.raws,
                                   simple_types \cup got.types)

SequenceSimple(self) == SequenceSimpleLoop(self, 1, {}, {})

BracketedSimple(self) == Simple(StartBracket)

\* OneOf::simple: the union of the alternatives' prefilters, None if any is.
OneOfSimple(self) ==
  LET got == [i \in 1..Len(self.elements) |-> Simple(self.elements[i])]
  IN  IF \E i \in 1..Len(self.elements) : ~got[i].some THEN SimpleNone
      ELSE SimpleSome(UNION {got[i].raws : i \in 1..Len(self.elements)},
                      UNION {got[i].types : i \in 1..Len(self.elements)})

Simple(self) ==
  CASE self.kind = "string"    -> StringParserSimple(self)
    [] self.kind = "meta"      -> IndentSimple(self)
    [] self.kind = "sequence"  -> SequenceSimple(self)
    [] self.kind = "bracketed" -> BracketedSimple(self)
    [] self.kind = "oneof"     -> OneOfSimple(self)

(***************************************************************************)
(* The grammars and contexts the matcher under test is run with.           *)
(***************************************************************************)
BAR == StringParser("bar", "kw", FALSE)
FOO == StringParser("foo", "kw", FALSE)
OptBAR == StringParser("bar", "kw", TRUE)
OptFOO == StringParser("foo", "kw", TRUE)
Indent == IndentElem(1)
Dedent == IndentElem(-1)

\* Element lists built from literals and nested Sequences only.
LiteralLists ==
  { <<BAR, FOO>>,
    <<OptBAR, FOO>>,
    <<BAR, OptFOO>>,
    <<BAR, OptFOO, BAR>>,
    <<SequenceNew(<<BAR, FOO>>), BAR>>,
    <<BAR, SequenceOf(<<FOO, BAR>>, Greedy, TRUE, FALSE, <<>>)>>,
    <<BAR, SequenceOf(<<FOO, BAR>>, Strict, TRUE, TRUE, <<>>), FOO>>,
    <<BAR, SequenceOf(<<FOO, OptBAR>>, GreedyOnceStarted, TRUE, FALSE, <<BAR>>)>> }

ElementLists ==
  LiteralLists \cup
  { <<Indent, BAR, FOO>>,
    <<BAR, Dedent, FOO>>,
    <<BAR, Indent, Dedent, FOO>>,
    <<BAR, Indent, OptFOO>>,
    <<BAR, SequenceOf(<<Indent, FOO>>, Strict, TRUE, TRUE, <<>>), FOO>>,
    <<BAR, BracketedOf(<<FOO>>, TRUE)>> }

\* (parse mode, own terminators, terminators inherited from the context).
ModeSetups ==
  { <<Strict, <<>>, <<>> >>,
    <<Greedy, <<>>, <<>> >>,
    <<GreedyOnceStarted, <<>>, <<>> >>,
    <<GreedyOnceStarted, <<FOO>>, <<>> >>,
    <<GreedyOnceStarted, <<>>, <<FOO>> >> }

Sequences ==
  { [grammar |-> SequenceOf(elements, m[1], gaps, FALSE, m[2]), terminators |-> m[3]] :
      elements \in ElementLists, m \in ModeSetups, gaps \in BOOLEAN }

Brackets ==
  { [grammar |-> BracketedOf(elements, gaps), terminators |-> <<>>] :
      elements \in {<<FOO>>, <<BAR, FOO>>}, gaps \in BOOLEAN }

Setups == Sequences \cup Brackets

(***************************************************************************)
(* Equality and structural edit of grammars.                               *)
(***************************************************************************)
Min(a, b) == IF a < b THEN a ELSE b

RECURSIVE dyn_eq(_, _)

\* impl PartialEq for Sequence: the two element lists are zipped and every
\* pair compared.  zip stops at the end of the shorter list; no other field
\* is looked at.
SequenceEq(self, other) ==
  \A i \in 1..Min(Len(self.elements), Len(other.elements)) :
     dyn_eq(self.elements[i], other.elements[i])

\* #[derive(PartialEq)] on Bracketed: field by field, `this` by SequenceEq.
BracketedEq(self, other) ==
  /\ self.bracket_type = other.bracket_type
  /\ self.bracket_pairs_set = other.bracket_pairs_set
  /\ self.allow_gaps = other.allow_gaps
  /\ SequenceEq(self.this, other.this)

\* Matchable::dyn_eq: the same concrete type, and equal by its PartialEq.
dyn_eq(a, b) ==
  /\ a.kind = b.kind
  /\ CASE a.kind = "sequence"  -> SequenceEq(a, b)
       [] a.kind = "bracketed" -> BracketedEq(a, b)
       [] OTHER                -> a = b

\* The Option<Vec<..>> argument of copy.
InsertNone == [some |-> FALSE, value |-> <<>>]
InsertSome(elems) == [some |-> TRUE, value |-> elems]

\* A faulty variant: the given terminators are always appended.
SequenceCopyExtendOnly(self, insert, replace_terminators, terminators) ==
  [self EXCEPT
     !.elements = IF insert.some THEN @ \o insert.value ELSE @,
     !.terminators = @ \o terminators]

\* A faulty variant: the inserted elements are dropped.
SequenceCopyNoInsert(self, insert, replace_terminators, terminators) ==
  [self EXCEPT
     !.terminators = IF replace_terminators THEN terminators ELSE @ \o terminators]

\* Sequence::copy: a clone of self with the elements extended by insert and
\* the terminators replaced or extended.
SequenceCopy(self, insert, replace_terminators, terminators) ==
  LET new_elems == IF insert.some THEN self.elements \o insert.value
                   ELSE self.elements
      new_grammar == [self EXCEPT !.elements = new_elems]
  IN  IF replace_terminators
      THEN [new_grammar EXCEPT !.terminators = terminators]
      ELSE [new_grammar EXCEPT !.terminators = @ \o terminators]

(***************************************************************************)
(* The dialect registry and the DuckDB dialect.                            *)
(***************************************************************************)
\* Ref::new(name): a late-bound handle to a rule of the dialect.
Ref(name) == [kind |-> "ref", name |-> name, optional |-> FALSE]

\* Ref::keyword(word): the keyword as a literal matcher.
Keyword(word) == StringParser(word, "keyword", FALSE)

\* one_of(elements), and one_of(elements).config(|this| this.optional()).
OneOf(elements) == [kind |-> "oneof", elements |-> elements, optional |-> FALSE]
Optional(matcher) == [matcher EXCEPT !.optional = TRUE]

\* A rule whose grammar plays no part here: known by origin and name only.
Rule(origin, name) == [kind |-> "rule", origin |-> origin, name |-> name,
                       optional |-> FALSE]

\* ansi::raw_dialect(): UnionGrammar.
AnsiUnionGrammar ==
  SequenceNew(<<Keyword("union"),
                Optional(OneOf(<<Keyword("distinct"), Keyword("all")>>))>>)

\* The rules DuckDB redefines, as Postgres has them (UnionGrammar is ANSI's).
InheritedNames ==
  {"SingleIdentifierGrammar", "DivideSegment", "UnionGrammar",
   "SelectClauseElementSegment", "OrderByClauseSegment",
   "GroupByClauseSegment", "ObjectLiteralElementSegment"}

PostgresLibrary ==
  [name \in InheritedNames |->
     IF name = "UnionGrammar" THEN AnsiUnionGrammar ELSE Rule("postgres", name)]

\* The optional BY NAME tail.
ByName == Optional(SequenceNew(<<Keyword("by"), Keyword("name")>>))

\* The (name, matcher) pairs raw_dialect hands to add.
DuckdbAdded ==
  << <<"SingleIdentifierGrammar",
       OneOf(<<Ref("NakedIdentifierSegment"), Ref("QuotedIdentifierSegment"),
               Ref("SingleQuotedIdentifierSegment")>>)>>,
     <<"DivideSegment",
       OneOf(<<StringParser("//", "binary_operator", FALSE),
               StringParser("/", "binary_operator", FALSE)>>)>>,
     <<"UnionGrammar",
       SequenceCopy(AnsiUnionGrammar, InsertSome(<<ByName>>), FALSE, <<>>)>> >>

\* The rules raw_dialect hands to replace_grammar, one call each.
DuckdbReplaced ==
  << <<"SelectClauseElementSegment", Rule("duckdb", "SelectClauseElementSegment")>>,
     <<"OrderByClauseSegment", Rule("duckdb", "OrderByClauseSegment")>>,
     <<"GroupByClauseSegment", Rule("duckdb", "GroupByClauseSegment")>>,
     <<"ObjectLiteralElementSegment", Rule("duckdb", "ObjectLiteralElementSegment")>> >>

\* The outcome of a registry operation: the grammar map and the error raised.
Registered(library) == [library |-> library, error |-> ""]
Refused(library, kind) == [library |-> library, error |-> kind]

Names(rules) == {rules[i][1] : i \in 1..Len(rules)}

\* Dialect::add, as raw_dialect calls it: every pair is put into the grammar
\* map in the order given, a rule of the same name being overwritten.
RECURSIVE DialectAddLoop(_, _)
DialectAddLoop(library, rules) ==
  IF rules = <<>> THEN library
  ELSE LET name == rules[1][1]
           matcher == rules[1][2]
       IN  DialectAddLoop([n \in DOMAIN library \cup {name} |->
                             IF n = name THEN matcher ELSE library[n]],
                          Tail(rules))

DialectAdd(library, rules) == Registered(DialectAddLoop(library, rules))

\* Dialect::replace_grammar: the rule of an existing name is overwritten.
replace_grammar(library, name, matcher) ==
  IF name \in DOMAIN library
  THEN Registered([library EXCEPT ![name] = matcher])
  ELSE Refused(library, "UnknownRule")

\* The replace_grammar calls of raw_dialect in order, up to the first failure.
RECURSIVE ReplaceAll(_, _)
ReplaceAll(library, rules) ==
  IF rules = <<>> THEN Registered(library)
  ELSE LET done == replace_grammar(library, rules[1][1], rules[1][2])
       IN  IF done.error # "" THEN done ELSE ReplaceAll(done.library, Tail(rules))

\* The token streams the DuckDB UnionGrammar is run on.
SqlRaws == {"union", "all", "by", "name", "ws"}

RECURSIVE SqlSeqsUpTo(_)
SqlSeqsUpTo(n) ==
  IF n = 0 THEN {<<>>}
  ELSE LET shorter == SqlSeqsUpTo(n - 1)
       IN  shorter \cup {Append(s, r) : s \in {t \in shorter : Len(t) = n - 1},
                                        r \in SqlRaws}

SqlInputs == {Lex(raws) : raws \in SqlSeqsUpTo(MaxLen)}

(***************************************************************************)
(* The run of the matcher under test.                                      *)
(***************************************************************************)
VARIABLES
  grammar,      \* the matcher under test (self)
  segments,     \* its input
  terminators,  \* parse_context.terminators on entry
  pc,           \* "ref", "ready", "loop" or "returned" ("idle": no run)
  idx,          \* index of the next element of the loop
  locals,       \* the locals of Sequence::match_segments
  result,       \* the value returned
  trace,        \* one record per loop iteration done, in order
  library,      \* the grammar map of the dialect being built
  error,        \* the error the last registry operation raised, "" for none
  build,        \* how far raw_dialect has got ("none": no dialect)
  call          \* the last copy or comparison of grammars: arguments and result

registry == <<library, error, build, call>>

vars == <<grammar, segments, terminators, pc, idx, locals, result, trace,
          library, error, build, call>>

NoCall == [op |-> "none"]

\* The empty grammar map.
NoLibrary == [name \in {} |-> Rule("", name)]

Init ==
  /\ \E setup \in Setups :
       /\ grammar = setup.grammar
       /\ terminators = setup.terminators
  /\ segments \in Inputs
  /\ pc = "ready"
  /\ idx = 0
  /\ locals = SequenceLocals(<<>>)
  /\ result = from_unmatched(<<>>)
  /\ trace = <<>>
  /\ library = NoLibrary
  /\ error = ""
  /\ build = "none"
  /\ call = NoCall

\* What iteration i saw and did: the locals before it, after step 2 (gapped)
\* and after it, the input and the result of the element, and what the loop
\* did with the result ("meta" for a buffered meta), and the terminators of
\* the parse context the element was matched under.
Iteration(self, st, i, after) ==
  LET elem == self.elements[i]
      gapped == ConsumeGap(self, st)
      elem_match == ElemMatch(elem, gapped, terminators)
  IN  IF elem.kind = "meta"
      THEN [idx |-> i, todo |-> "meta", elem_input |-> <<>>,
            elem_terminators |-> <<>>,
            elem_match |-> from_unmatched(<<>>),
            before |-> st, gapped |-> st, after |-> after]
      ELSE [idx |-> i, todo |-> Disposition(self, elem, elem_match),
            elem_input |-> gapped.unmatched_segments,
            elem_terminators |-> ElemContext(terminators),
            elem_match |-> elem_match,
            before |-> st, gapped |-> gapped, after |-> after]

\* Sequence::match_segments is entered: the locals are initialised.
SequenceEnter ==
  /\ pc = "ready"
  /\ grammar.kind = "sequence"
  /\ locals' = SequenceLocals(segments)
  /\ idx' = 1
  /\ pc' = "loop"
  /\ UNCHANGED <<grammar, segments, terminators, result, trace>>
  /\ UNCHANGED registry

\* One iteration of the loop; an early return ends the function.
SequenceIterate ==
  /\ pc = "loop"
  /\ idx <= Len(grammar.elements)
  /\ LET after == LoopBody(grammar, segments, terminators, locals, idx)
     IN  /\ locals' = after
         /\ trace' = Append(trace, Iteration(grammar, locals, idx, after))
         /\ IF after.ctl = "return"
            THEN pc' = "returned" /\ result' = after.ret
            ELSE pc' = "loop" /\ result' = result
  /\ idx' = idx + 1
  /\ UNCHANGED <<grammar, segments, terminators>>
  /\ UNCHANGED registry

\* The loop is over: the code after it builds the result.
SequenceFinish ==
  /\ pc = "loop"
  /\ idx > Len(grammar.elements)
  /\ result' = SequenceReturn(locals)
  /\ pc' = "returned"
  /\ UNCHANGED <<grammar, segments, terminators, idx, locals, trace>>
  /\ UNCHANGED registry

\* Bracketed::match_segments, run whole.
BracketedRun ==
  /\ pc = "ready"
  /\ grammar.kind = "bracketed"
  /\ result' = BracketedMatch(grammar, segments, terminators)
  /\ pc' = "returned"
  /\ UNCHANGED <<grammar, segments, terminators, idx, locals, trace>>
  /\ UNCHANGED registry

Next == SequenceEnter \/ SequenceIterate \/ SequenceFinish \/ BracketedRun

Spec == Init /\ [][Next]_vars

(***************************************************************************)
(* Grammars copied and compared.                                           *)
(***************************************************************************)
\* The variables of a matcher run when no matcher is run.
NoRun ==
  /\ grammar = SequenceNew(<<>>)
  /\ segments = <<>>
  /\ terminators = <<>>
  /\ pc = "idle"
  /\ idx = 0
  /\ locals = SequenceLocals(<<>>)
  /\ result = from_unmatched(<<>>)
  /\ trace = <<>>

matcher_run == <<grammar, segments, terminators, pc, idx, locals, result, trace>>

\* The Sequences copy is called on, and its arguments.
CopyReceivers ==
  { SequenceOf(elements, mode, gaps, optional, terms) :
      elements \in {<<>>, <<BAR>>, <<BAR, OptFOO>>}, mode \in ParseModes,
      gaps \in BOOLEAN, optional \in BOOLEAN, terms \in {<<>>, <<FOO>>} }
     \cup {AnsiUnionGrammar}

CopyInserts ==
  {InsertNone, InsertSome(<<>>), InsertSome(<<FOO>>), InsertSome(<<OptBAR, FOO>>),
   InsertSome(<<ByName>>)}

CopyTerminators == {<<>>, <<BAR>>, <<BAR, FOO>>}

\* The element lists of the grammars compared.
EqElementLists ==
  { <<>>, <<BAR>>, <<FOO>>, <<BAR, FOO>>, <<BAR, FOO, BAR>>,
    <<SequenceNew(<<BAR>>)>>, <<SequenceNew(<<BAR, FOO>>)>>,
    <<BracketedOf(<<FOO>>, TRUE)>>, <<BracketedOf(<<FOO, BAR>>, TRUE)>> }

EqSequences ==
  { SequenceOf(elements, mode, TRUE, FALSE, <<>>) :
      elements \in EqElementLists, mode \in {Strict, Greedy} }

EqBrackets ==
  { BracketedOf(elements, gaps) :
      elements \in {<<>>, <<FOO>>, <<FOO, BAR>>, <<BAR>>}, gaps \in BOOLEAN }

GrammarInit ==
  /\ NoRun
  /\ library = NoLibrary
  /\ error = ""
  /\ build = "none"
  /\ call = NoCall

\* receiver.copy(insert, replace_terminators, terminators); the receiver is
\* borrowed (&self) and is after the call what it was before.
SequenceCopyCall ==
  /\ call = NoCall
  /\ \E receiver \in CopyReceivers, insert \in CopyInserts,
        replace_terminators \in BOOLEAN, given \in CopyTerminators :
        call' = [op |-> "copy", receiver_before |-> receiver, insert |-> insert,
                 replace_terminators |-> replace_terminators,
                 terminators |-> given,
                 out |-> SequenceCopy(receiver, insert, replace_terminators, given),
                 receiver_after |-> receiver]
  /\ UNCHANGED <<library, error, build>>
  /\ UNCHANGED matcher_run

\* a == b on two Sequences.
SequenceEqCall ==
  /\ call = NoCall
  /\ \E a \in EqSequences, b \in EqSequences :
        call' = [op |-> "eq", self |-> a, other |-> b, out |-> SequenceEq(a, b)]
  /\ UNCHANGED <<library, error, build>>
  /\ UNCHANGED matcher_run

\* a == b on two Bracketeds.
BracketedEqCall ==
  /\ call = NoCall
  /\ \E a \in EqBrackets, b \in EqBrackets :
        call' = [op |-> "eq", self |-> a, other |-> b, out |-> BracketedEq(a, b)]
  /\ UNCHANGED <<library, error, build>>
  /\ UNCHANGED matcher_run

GrammarNext == SequenceCopyCall \/ SequenceEqCall \/ BracketedEqCall

GrammarSpec == GrammarInit /\ [][GrammarNext]_vars

(***************************************************************************)
(* The DuckDB dialect built, and its UnionGrammar run.                     *)
(***************************************************************************)
\* raw_dialect has taken over the Postgres dialect; a Ref to UnionGrammar
\* waits for the dialect to be built.
DialectInit ==
  /\ grammar = Ref("UnionGrammar")
  /\ segments \in SqlInputs
  /\ terminators = <<>>
  /\ pc = "ref"
  /\ idx = 0
  /\ locals = SequenceLocals(<<>>)
  /\ result = from_unmatched(<<>>)
  /\ trace = <<>>
  /\ library = PostgresLibrary
  /\ error = ""
  /\ build = "cloned"
  /\ call = NoCall

\* duckdb_dialect.add([..]); what add returns is not looked at.
DuckdbAdd ==
  /\ build = "cloned"
  /\ LET done == DialectAdd(library, DuckdbAdded)
     IN  library' = done.library /\ error' = done.error
  /\ build' = "added"
  /\ UNCHANGED call
  /\ UNCHANGED matcher_run

\* The four duckdb_dialect.replace_grammar(..) calls; the dialect is returned.
DuckdbReplaceGrammar ==
  /\ build = "added"
  /\ LET done == ReplaceAll(library, DuckdbReplaced)
     IN  library' = done.library /\ error' = done.error
  /\ build' = "built"
  /\ UNCHANGED call
  /\ UNCHANGED matcher_run

\* Ref::match_segments: the name is looked up in the dialect and the rule
\* found is run on the input.
RefResolve ==
  /\ pc = "ref"
  /\ build = "built"
  /\ IF grammar.name \in DOMAIN library
     THEN /\ grammar' = library[grammar.name]
          /\ pc' = "ready"
          /\ result' = result
     ELSE /\ grammar' = grammar
          /\ pc' = "returned"
          /\ result' = Err("UnknownRule")
  /\ UNCHANGED <<segments, terminators, idx, locals, trace>>
  /\ UNCHANGED registry

DialectNext ==
  \/ DuckdbAdd
  \/ DuckdbReplaceGrammar
  \/ RefResolve
  \/ SequenceEnter
  \/ SequenceIterate
  \/ SequenceFinish

DialectSpec == DialectInit /\ [][DialectNext]_vars

(***************************************************************************)
(* Vocabulary of the properties.                                           *)
(***************************************************************************)
\* A token's identity: its raw text and its position marker.
Identity(segs) == [i \in 1..Len(segs) |-> <<segs[i].raw, segs[i].pos>>]

WithoutMetas(segs) == SelectSeq(segs, NotMeta)
CodeOnly(segs) == SelectSeq(segs, IsCode)
MetasOnly(segs) == SelectSeq(segs, IsMeta)

IsPrefix(s, t) == Len(s) <= Len(t) /\ Take(t, Len(s)) = s
IsSuffix(s, t) == Len(s) <= Len(t) /\ Drop(t, Len(t) - Len(s)) = s

Returned == pc = "returned"
IsSequence == grammar.kind = "sequence"
IsBracketed == grammar.kind = "bracketed"

\* Iteration k ran an element matcher (it was not a buffered meta) and the
\* matcher returned normally.
Attempted(k) == trace[k].todo # "meta"
Failed(k) ==
  /\ Attempted(k)
  /\ trace[k].elem_match.status = "ok"
  /\ ~has_match(trace[k].elem_match)
Succeeded(k) ==
  /\ Attempted(k)
  /\ trace[k].elem_match.status = "ok"
  /\ has_match(trace[k].elem_match)
FailedRequired(k) == Failed(k) /\ ~is_optional(grammar.elements[trace[k].idx])

(***************************************************************************)
(* C1.  Token conservation: on every non-error return of a Sequence, the   *)
(* matched segments followed by the unmatched segments, metas removed, are *)
(* the input, token for token and in order.                                *)
(***************************************************************************)
C1_TokenConservation ==
  (Returned /\ IsSequence /\ result.status = "ok") =>
     Identity(WithoutMetas(result.matched_segments \o result.unmatched_segments))
       = Identity(segments)

\* A GreedyOnceStarted run that split off a tail, kept a non-code buffer to
\* the end and emitted a meta.
C1_Witness ==
  /\ Returned /\ IsSequence /\ result.status = "ok"
  /\ locals.tail # <<>>
  /\ locals.non_code_buffer # <<>>
  /\ MetasOnly(result.matched_segments) # <<>>
  /\ CodeOnly(result.matched_segments) # <<>>

(***************************************************************************)
(* C2.  Strict mode is all-or-nothing: once a non-optional element of a    *)
(* Strict Sequence has failed, the Sequence has returned an empty match    *)
(* with the original input as unmatched.                                   *)
(***************************************************************************)
C2_StrictAllOrNothing ==
  (IsSequence /\ grammar.parse_mode = Strict) =>
     \A k \in 1..Len(trace) :
        FailedRequired(k) =>
           /\ Returned
           /\ result.status = "ok"
           /\ result.matched_segments = <<>>
           /\ result.unmatched_segments = segments

\* A required element failed after an earlier element had matched and a meta
\* was waiting in the buffer.
C2_Witness ==
  /\ IsSequence /\ grammar.parse_mode = Strict
  /\ \E k \in 1..Len(trace) :
        /\ FailedRequired(k)
        /\ CodeOnly(trace[k].before.matched_segments) # <<>>
        /\ trace[k].before.meta_buffer # <<>>

\* A matched span that starts with a matched open bracket and ends with a
\* matched close bracket.
BracketedSpan(matched) ==
  /\ Len(matched) >= 2
  /\ matched[1].raw = "(" /\ matched[1].type = "start_bracket"
  /\ matched[Len(matched)].raw = ")" /\ matched[Len(matched)].type = "end_bracket"

\* An open bracket, content the inner Sequence matches whole, a close bracket.
WellBracketed(self, segs) ==
  /\ Len(segs) >= 3
  /\ segs[1].raw = "(" /\ segs[Len(segs)].raw = ")"
  /\ LET inner == SubSeq(segs, 2, Len(segs) - 1)
         content == Match(self.this,
                          IF self.allow_gaps THEN trim_non_code_segments(inner).mid
                          ELSE inner, <<>>)
     IN  /\ \A i \in 1..Len(inner) : inner[i].raw \notin {"(", ")"}
         /\ content.status = "ok" /\ has_match(content)
         /\ CodeOnly(content.unmatched_segments) = <<>>

(***************************************************************************)
(* C3.  Bracket balance: a Bracketed match ends as (a) a match that starts *)
(* with exactly one matched open bracket and ends with exactly one matched *)
(* close bracket, (b) no match, or (c) the UnbalancedBrackets error; and   *)
(* on an open bracket, content the inner grammar accepts and a close       *)
(* bracket, it ends as (a).                                                *)
(***************************************************************************)
C3_BracketBalance ==
  (Returned /\ IsBracketed) =>
     /\ \/ result.status = "ok" /\ BracketedSpan(result.matched_segments)
        \/ result.status = "ok" /\ ~has_match(result)
        \/ result.status = "err" /\ result.error = "UnbalancedBrackets"
     /\ WellBracketed(grammar, segments) =>
           (result.status = "ok" /\ BracketedSpan(result.matched_segments))

\* The terminators active in the Sequence under test: inherited, then own.
ActiveTerminators == terminators \o grammar.terminators

\* First iteration whose element consumed code, 0 when there is none yet.
FirstSuccess ==
  IF \E k \in 1..Len(trace) : Succeeded(k)
  THEN CHOOSE k \in 1..Len(trace) : Succeeded(k) /\ \A j \in 1..(k - 1) : ~Succeeded(j)
  ELSE 0

(***************************************************************************)
(* C4.  GreedyOnceStarted anchor: once the first element of a              *)
(* GreedyOnceStarted Sequence has consumed code, if an active terminator   *)
(* (own or inherited) occurs at top level in the remaining input, no token *)
(* at or after the first such terminator is passed to a later element's    *)
(* matcher, and those tokens end the returned unmatched segments, in       *)
(* order; also when the terminator directly follows the matched element.   *)
(***************************************************************************)
C4_GreedyOnceStartedAnchor ==
  (IsSequence /\ grammar.parse_mode = GreedyOnceStarted /\ FirstSuccess # 0) =>
     LET k == FirstSuccess
         rest == trace[k].elem_match.unmatched_segments
         at == GreedyScan(rest, ActiveTerminators, terminators, 1, 0)
         withheld == Identity(Drop(rest, at - 1))
     IN  at <= Len(rest) =>
           /\ \A j \in (k + 1)..Len(trace) :
                 Attempted(j) =>
                    \A i \in 1..Len(trace[j].elem_input), w \in 1..Len(withheld) :
                       Identity(trace[j].elem_input)[i] # withheld[w]
           /\ (Returned /\ result.status = "ok") =>
                 IsSuffix(withheld, Identity(result.unmatched_segments))

(***************************************************************************)
(* C5.  Greedy modes stop at the first failure: in a Greedy or             *)
(* GreedyOnceStarted Sequence, once a non-optional element has failed, no  *)
(* later element is attempted, the matched segments are what had been      *)
(* matched before it and the rest of the input is returned unmatched.      *)
(***************************************************************************)
C5_GreedyStopsAtFirstFailure ==
  (IsSequence /\ grammar.parse_mode \in {Greedy, GreedyOnceStarted}) =>
     \A k \in 1..Len(trace) :
        FailedRequired(k) =>
           /\ \A j \in (k + 1)..Len(trace) : ~Attempted(j)
           /\ (Returned /\ result.status = "ok") =>
                 /\ WithoutMetas(result.matched_segments)
                      = WithoutMetas(trace[k].before.matched_segments)
                 /\ Identity(result.unmatched_segments)
                      = Identity(Drop(segments,
                                      Len(WithoutMetas(trace[k].before.matched_segments))))

\* What iteration k put into matched_segments in front of the element's match.
Flushed(k) ==
  SubSeq(trace[k].after.matched_segments,
         Len(trace[k].before.matched_segments) + 1,
         Len(trace[k].after.matched_segments)
           - Len(trace[k].elem_match.matched_segments))

IndentVals(segs) == [i \in 1..Len(segs) |-> segs[i].indent_val]

MetasBeforeGap(segs) ==
  \A i, j \in 1..Len(segs) : (segs[i].is_meta /\ ~segs[j].is_meta) => i < j
GapBeforeMetas(segs) ==
  \A i, j \in 1..Len(segs) : (segs[i].is_meta /\ ~segs[j].is_meta) => j < i

Shape(segs) == [i \in 1..Len(segs) |-> <<segs[i].type, segs[i].raw>>]

(***************************************************************************)
(* C6.  Meta placement: whenever a Sequence flushes its buffers before a   *)
(* matched element, the buffered metas and the buffered gap sit in         *)
(* matched_segments directly before the element's segments, metas before   *)
(* gap when every buffered meta has indent_val >= 0 (also with no meta),   *)
(* gap before metas when some buffered meta is negative, each group in its  *)
(* own order; so Sequence[Indent, BAR, FOO] on [bar, ws, foo] gives        *)
(* [indent, bar, ws, foo].                                                 *)
(***************************************************************************)
C6_MetaPlacement ==
  /\ IsSequence =>
       \A k \in 1..Len(trace) :
          (Succeeded(k) /\ trace[k].todo = "flush") =>
             LET metas == trace[k].gapped.meta_buffer
                 gap == trace[k].gapped.non_code_buffer
                 flushed == Flushed(k)
             IN  /\ IsPrefix(trace[k].before.matched_segments,
                             trace[k].after.matched_segments)
                 /\ IsSuffix(trace[k].elem_match.matched_segments,
                             trace[k].after.matched_segments)
                 /\ IndentVals(MetasOnly(flushed)) = metas
                 /\ WithoutMetas(flushed) = gap
                 /\ IF \A i \in 1..Len(metas) : metas[i] >= 0
                    THEN MetasBeforeGap(flushed)
                    ELSE GapBeforeMetas(flushed)
  /\ ( /\ Returned
       /\ grammar = SequenceNew(<<Indent, BAR, FOO>>)
       /\ Identity(segments) = <<<<"bar", 1>>, <<"ws", 2>>, <<"foo", 3>>>> ) =>
        Shape(result.matched_segments)
          = << <<"indent", "">>, <<"kw", "bar">>, <<"whitespace", "ws">>, <<"kw", "foo">> >>

\* A flush before a matched element with a non-empty gap and a negative meta
\* among the buffered metas.
C6_Witness ==
  /\ IsSequence
  /\ \E k \in 1..Len(trace) :
        /\ Succeeded(k) /\ trace[k].todo = "flush"
        /\ trace[k].gapped.non_code_buffer # <<>>
        /\ Len(trace[k].gapped.meta_buffer) = 2
        /\ \E i \in 1..Len(trace[k].gapped.meta_buffer) :
              trace[k].gapped.meta_buffer[i] < 0

Skipped(k) ==
  Len(trace[k].gapped.non_code_buffer) > Len(trace[k].before.non_code_buffer)

(***************************************************************************)
(* C7.  A Sequence skips a non-code token ahead of an element only when    *)
(* allow_gaps is true and the Sequence has already matched an element.     *)
(* Hence (i) a Strict Sequence[BAR, FOO] with allow_gaps(false) returns no *)
(* match when non-code separates bar and foo, and (ii) a Sequence[BAR,     *)
(* FOO] whose input begins with a non-code token returns no match.         *)
(***************************************************************************)
C7_GapOnlyAfterMatch ==
  IsSequence =>
     /\ \A k \in 1..Len(trace) :
          Skipped(k) =>
             /\ grammar.allow_gaps
             /\ \E j \in 1..(k - 1) : Succeeded(j)
     /\ ( /\ Returned
          /\ grammar.elements = <<BAR, FOO>>
          /\ grammar.parse_mode = Strict
          /\ ~grammar.allow_gaps
          /\ Len(segments) >= 3
          /\ segments[1].raw = "bar" /\ segments[2].raw = "ws" ) =>
            (result.status = "ok" /\ ~has_match(result))
     /\ ( /\ Returned
          /\ grammar.elements = <<BAR, FOO>>
          /\ Len(segments) >= 1
          /\ segments[1].raw = "ws" ) =>
            (result.status = "ok" /\ ~has_match(result))

\* The input with one more whitespace token (position marker 0) after index p.
InsertGap(segs, p) == Take(segs, p) \o <<Token("ws", 0)>> \o Drop(segs, p)

\* Input indexes of the first and the last code token the match consumed; the
\* matched segments without metas are a prefix of the input.
ConsumedLen(matched) == Len(WithoutMetas(matched))
FirstConsumedCode(matched) == LeadingNonCode(WithoutMetas(matched)) + 1
LastConsumedCode(matched) == LastCodeIndex(WithoutMetas(matched))

LiteralSequence ==
  IsSequence /\ grammar.allow_gaps /\ grammar.elements \in LiteralLists

(***************************************************************************)
(* C8.  Gap neutrality: for a Sequence with allow_gaps whose elements are  *)
(* literal matchers or nested such Sequences, if it matches input I then   *)
(* on every I' made from I by inserting an extra non-code token between    *)
(* two code tokens the match consumed it matches too, consumes the same    *)
(* code tokens in the same order, and the inserted token is in             *)
(* matched_segments at its input position.                                 *)
(***************************************************************************)
C8_GapNeutrality ==
  (Returned /\ LiteralSequence /\ result.status = "ok" /\ has_match(result)) =>
     \A p \in FirstConsumedCode(result.matched_segments)
                ..(LastConsumedCode(result.matched_segments) - 1) :
        LET with_gap == InsertGap(segments, p)
            again == Match(grammar, with_gap, terminators)
        IN  /\ again.status = "ok"
            /\ has_match(again)
            /\ Identity(CodeOnly(again.matched_segments))
                 = Identity(CodeOnly(result.matched_segments))
            /\ IsPrefix(Identity(WithoutMetas(again.matched_segments)),
                        Identity(with_gap))
            /\ ConsumedLen(again.matched_segments) > p

\* A match over [bar, ws, foo]: two consumed code tokens with a gap between
\* them already, next to which the extra token is inserted.
C8_Witness ==
  /\ Returned /\ LiteralSequence /\ result.status = "ok"
  /\ Len(CodeOnly(result.matched_segments)) >= 2
  /\ \E i \in 1..Len(result.matched_segments) :
        result.matched_segments[i].raw = "ws"

\* The input token a matched segment was made from.
SourceToken(seg) ==
  CHOOSE t \in {segments[i] : i \in 1..Len(segments)} : t.pos = seg.pos

(***************************************************************************)
(* C9.  Prefilter soundness: if Sequence.simple returns Some((R, K)), then *)
(* every result of match_segments whose matched segments hold a code token *)
(* has a first consumed code token whose (folded) raw is in R or whose     *)
(* kind is in K.                                                           *)
(***************************************************************************)
C9_PrefilterSoundness ==
  ( /\ Returned /\ IsSequence /\ result.status = "ok"
    /\ Simple(grammar).some
    /\ CodeOnly(result.matched_segments) # <<>> ) =>
     LET first == SourceToken(CodeOnly(result.matched_segments)[1])
     IN  \/ Upper(first.raw) \in Simple(grammar).raws
         \/ first.type \in Simple(grammar).types

OpenWithoutClose(segs) ==
  /\ has_match(StringParserMatch(StartBracket, segs))
  /\ BracketScan(Tail(segs), 1, 0) = 0

(***************************************************************************)
(* C10.  Unbalanced brackets are an error value: when Bracketed's open     *)
(* bracket matches and the rest of the input holds no matching close       *)
(* bracket, the match returns the UnbalancedBrackets error, and an         *)
(* enclosing Sequence returns that same error.                             *)
(***************************************************************************)
C10_UnbalancedIsError ==
  /\ (Returned /\ IsBracketed /\ OpenWithoutClose(segments)) =>
        result = Err("UnbalancedBrackets")
  /\ IsSequence =>
        \A k \in 1..Len(trace) :
           ( /\ Attempted(k)
             /\ grammar.elements[trace[k].idx].kind = "bracketed"
             /\ OpenWithoutClose(trace[k].elem_input) ) =>
              (Returned /\ result = Err("UnbalancedBrackets"))

\* The members of a list of matchers.
Members(matchers) == {matchers[i] : i \in 1..Len(matchers)}

(***************************************************************************)
(* C11.  A Sequence's own terminators are active inside it: while any      *)
(* element of a Sequence configured with terminators T is being matched,   *)
(* the terminators its matcher sees through the parse context contain      *)
(* every member of T besides the inherited ones, in every parse mode.      *)
(* (The context on return is the context on entry: no action assigns       *)
(* terminators, the frame of an element living inside one iteration.)      *)
(***************************************************************************)
C11_OwnTerminatorsActive ==
  IsSequence =>
     \A k \in 1..Len(trace) :
        Attempted(k) =>
           /\ Members(grammar.terminators) \subseteq Members(trace[k].elem_terminators)
           /\ Members(terminators) \subseteq Members(trace[k].elem_terminators)

\* The raws of the code tokens of a token list, in order.
Words(segs) == [i \in 1..Len(CodeOnly(segs)) |-> CodeOnly(segs)[i].raw]

\* A statement fragment: it begins and ends with a code token.
Fragment(segs) ==
  segs # <<>> /\ segs[1].is_code /\ segs[Len(segs)].is_code

WholeMatch ==
  /\ result.status = "ok"
  /\ result.unmatched_segments = <<>>
  /\ Identity(WithoutMetas(result.matched_segments)) = Identity(segments)

C13_CopyIsEditedClone ==
  call.op = "copy" =>
     LET self == call.receiver_before
         out == call.out
         inserted == IF call.insert.some THEN call.insert.value ELSE <<>>
         n == Len(self.elements)
     IN  /\ out.kind = "sequence"
         /\ Len(out.elements) = n + Len(inserted)
         /\ \A i \in 1..n : out.elements[i] = self.elements[i]
         /\ \A j \in 1..Len(inserted) : out.elements[n + j] = inserted[j]
         /\ call.replace_terminators => out.terminators = call.terminators
         /\ ~call.replace_terminators =>
               /\ IsPrefix(self.terminators, out.terminators)
               /\ IsSuffix(call.terminators, out.terminators)
               /\ Len(out.terminators) = Len(self.terminators) + Len(call.terminators)
         /\ out.parse_mode = self.parse_mode
         /\ out.allow_gaps = self.allow_gaps
         /\ is_optional(out) = is_optional(self)
         /\ call.receiver_after.elements = self.elements
         /\ call.receiver_after.terminators = self.terminators

\* A copy that inserts elements after existing ones and replaces existing
\* terminators by other ones.
C13_Witness ==
  /\ call.op = "copy"
  /\ call.insert.some /\ call.insert.value # <<>>
  /\ call.receiver_before.elements # <<>>
  /\ call.replace_terminators
  /\ call.receiver_before.terminators # <<>>
  /\ call.terminators # <<>>
  /\ call.out.terminators # call.receiver_before.terminators

PairwiseEqual(a, b) ==
  /\ Len(a) = Len(b)
  /\ \A i \in 1..Len(a) : dyn_eq(a[i], b[i])

(***************************************************************************)
(* C15.  Sequence equality (also inside Bracketed's derived equality)      *)
(* relates two Sequences only if they have the same number of elements     *)
(* and their elements are pairwise equal in order: a Sequence is never     *)
(* equal to one whose element list is a proper prefix or extension of its  *)
(* own, and an empty Sequence is equal to an empty Sequence only.          *)
(***************************************************************************)
C15_EqualityComparesLength ==
  (call.op = "eq" /\ call.out) =>
     IF call.self.kind = "sequence"
     THEN PairwiseEqual(call.self.elements, call.other.elements)
     ELSE PairwiseEqual(call.self.this.elements, call.other.this.elements)

====
